---- MODULE Spec2Model ----
(***************************************************************************)
(* Automated Insight Engine: the ingestion service (ingestion_service.py)  *)
(* and the analytical pipeline (etl_logic.py).                             *)
(*                                                                         *)
(* Text is a sequence of one-character strings, so that lower(), endswith()*)
(* and str.replace() are computed character by character.  Dates are day   *)
(* numbers with day 0 a Monday; money is a whole number of currency units; *)
(* a week-over-week change is kept in hundredths of a percent.             *)
(*                                                                         *)
(* Library contracts the code relies on:                                   *)
(*  - polars group_by_dynamic needs its index column sorted ascending and  *)
(*    raises InvalidOperationError otherwise; it emits one row per         *)
(*    non-empty window;                                                    *)
(*  - polars group_by (no maintain_order) returns the groups in an         *)
(*    unspecified order, and sort leaves the order of equal keys           *)
(*    unspecified;                                                         *)
(*  - IsolationForest(random_state=42).fit_predict is a fixed function of  *)
(*    the feature matrix and raises ValueError on zero samples;            *)
(*  - format(None, ".2f") raises TypeError; format(inf/nan, ".2f") gives   *)
(*    "inf"/"nan";                                                         *)
(*  - the watchdog observer dispatches events from one thread, one         *)
(*    handler call at a time.                                              *)
(***************************************************************************)
EXTENDS Integers, Sequences, FiniteSets, TLC

\* ------------------------------------------------------------------ bounds
MaxRows == 3
MaxRunRows == 2
MaxEvents == 2
MaxWeeks == 2
MaxTable == 2

\* ------------------------------------------------------------------ text
Range(s) == {s[i] : i \in 1..Len(s)}

\* str.lower() on one character (the alphabet of the modelled names)
LowerChar(c) ==
    CASE c = "D" -> "d"
      [] c = "C" -> "c"
      [] c = "S" -> "s"
      [] c = "V" -> "v"
      [] OTHER -> c

\* str.lower()
Lower(s) == [i \in 1..Len(s) |-> LowerChar(s[i])]

\* str.startswith at offset i (1-based): s[i .. i+len(p)-1] = p
MatchAt(s, p, i) ==
    /\ i + Len(p) - 1 <= Len(s)
    /\ \A k \in 1..Len(p) : s[i + k - 1] = p[k]

\* str.endswith(suffix)
EndsWith(s, suffix) ==
    /\ Len(suffix) <= Len(s)
    /\ MatchAt(s, suffix, Len(s) - Len(suffix) + 1)

\* str.replace(old, new): every non-overlapping occurrence, left to right,
\* compared case-sensitively
RECURSIVE ReplaceFrom(_, _, _, _)
ReplaceFrom(s, old, new, i) ==
    IF i > Len(s) THEN << >>
    ELSE IF MatchAt(s, old, i) THEN new \o ReplaceFrom(s, old, new, i + Len(old))
    ELSE << s[i] >> \o ReplaceFrom(s, old, new, i + 1)

Replace(s, old, new) == ReplaceFrom(s, old, new, 1)

\* index of the last "/" of a path, 0 when there is none
LastSlash(p) ==
    LET S == {i \in 1..Len(p) : p[i] = "/"}
    IN  IF S = {} THEN 0 ELSE CHOOSE i \in S : \A j \in S : j <= i

\* os.path.basename
Basename(p) == SubSeq(p, LastSlash(p) + 1, Len(p))

\* os.path.dirname
Dirname(p) == IF LastSlash(p) = 0 THEN << >> ELSE SubSeq(p, 1, LastSlash(p) - 1)

\* os.path.join(a, b) for a relative b
PathJoin(a, b) == IF a = << >> THEN b ELSE a \o << "/" >> \o b

DotCsv == << ".", "c", "s", "v" >>
ReportPdf == << "_", "R", "e", "p", "o", "r", "t", ".", "p", "d", "f" >>

\* generate_pdf_report: the output path derived from the input path
OutputPath(file_path) ==
    LET output_filename == Replace(Basename(file_path), DotCsv, ReportPdf)
    IN  PathJoin(Dirname(file_path), output_filename)

\* CSVHandler.on_created: the filter on the event
Accepted(event) ==
    /\ ~event.is_directory
    /\ EndsWith(Lower(event.src_path), DotCsv)

\* ------------------------------------------------------------------ data
Null == "null"

\* a value of the WoW_Change_% column: null, a number of hundredths of a
\* percent, or a non-finite float
WoWNull == [kind |-> "null"]
WoWInf == [kind |-> "inf"]
WoWNaN == [kind |-> "nan"]
WoWNum(h) == [kind |-> "num", v |-> h]

\* round half away from zero of n / d, d > 0
RoundDiv(n, d) ==
    IF n >= 0 THEN (2 * n + d) \div (2 * d)
    ELSE 0 - ((2 * (0 - n) + d) \div (2 * d))

\* the Monday that opens the 1w window of day d
WeekStart(d) == d - (d % 7)

IsSortedByDate(df) == \A i \in 1..(Len(df) - 1) : df[i].Date <= df[i + 1].Date

RECURSIVE SumSpend(_, _)
\* pl.col("Spend").sum() over the rows of df whose index is in idx
SumSpend(df, idx) ==
    IF idx = {} THEN 0
    ELSE LET i == CHOOSE j \in idx : TRUE
         IN  df[i].Spend + SumSpend(df, idx \ {i})

RECURSIVE WindowsFrom(_, _, _)
\* the window starts of df in order of first appearance, from row i on
WindowsFrom(df, i, seen) ==
    IF i > Len(df) THEN << >>
    ELSE LET w == WeekStart(df[i].Date)
         IN  IF w \in seen THEN WindowsFrom(df, i + 1, seen)
             ELSE << w >> \o WindowsFrom(df, i + 1, seen \cup {w})

\* group_by_dynamic("Date", every="1w").agg(sum of Spend): one row per
\* non-empty window
GroupByDynamic(df) ==
    LET ws == WindowsFrom(df, 1, {})
    IN  [k \in 1..Len(ws) |->
            [Date |-> ws[k],
             Weekly_Spend |->
                SumSpend(df, {i \in 1..Len(df) : WeekStart(df[i].Date) = ws[k]})]]

RECURSIVE SortByDate(_)
\* .sort("Date") on rows with distinct dates
SortByDate(rows) ==
    IF rows = << >> THEN << >>
    ELSE LET m == CHOOSE i \in 1..Len(rows) :
                      \A j \in 1..Len(rows) : rows[i].Date <= rows[j].Date
             rest == [k \in 1..(Len(rows) - 1) |->
                          IF k < m THEN rows[k] ELSE rows[k + 1]]
         IN  << rows[m] >> \o SortByDate(rest)

\* ((Weekly_Spend / Weekly_Spend.shift(1) - 1) * 100).round(2) for one row
PctChange(cur, prev) ==
    IF prev = 0 THEN (IF cur = 0 THEN WoWNaN ELSE WoWInf)
    ELSE WoWNum(RoundDiv((cur - prev) * 10000, prev))

\* with_columns(... .alias("WoW_Change_%")): shift(1) is null on the first row
WithWoW(weekly) ==
    [k \in 1..Len(weekly) |->
        [Date |-> weekly[k].Date,
         Weekly_Spend |-> weekly[k].Weekly_Spend,
         WoW |-> IF k = 1 THEN WoWNull
                 ELSE PctChange(weekly[k].Weekly_Spend, weekly[k - 1].Weekly_Spend)]]

\* calculate_weekly_metrics
calculate_weekly_metrics(df) ==
    IF ~IsSortedByDate(df)
    THEN [raised |-> "InvalidOperationError", value |-> << >>]
    ELSE [raised |-> "none", value |-> WithWoW(SortByDate(GroupByDynamic(df)))]

\* the rows the fitted model labels -1
AnomalyRows(df, predictions) == {i \in 1..Len(df) : predictions[i] = -1}

\* the no-anomaly sentinel
Sentinel == << [Location |-> Null, Anomaly_Count |-> 0, Avg_Anomaly_Spend |-> 0] >>

\* group_by(["Location"]).agg(count, mean(Spend).round(2)): the set of groups
\* (Avg_Anomaly_Spend in hundredths)
AnomalyGroups(df, idx) ==
    {[Location |-> l,
      Anomaly_Count |-> Cardinality({i \in idx : df[i].Location = l}),
      Avg_Anomaly_Spend |->
          RoundDiv(100 * SumSpend(df, {i \in idx : df[i].Location = l}),
                   Cardinality({i \in idx : df[i].Location = l}))]
        : l \in {df[i].Location : i \in idx}}

\* every arrangement of a finite set as a sequence
Arrangements(S) ==
    {s \in [1..Cardinality(S) -> S] : \A x \in S : \E i \in 1..Cardinality(S) : s[i] = x}

\* .sort("Anomaly_Count", descending=True): the key alone orders the rows
SortedByCountDesc(s) ==
    \A i \in 1..(Len(s) - 1) : s[i].Anomaly_Count >= s[i + 1].Anomaly_Count

\* detect_anomalies: the results the call can produce
detect_anomalies(df, predictions) ==
    IF Len(df) = 0
    THEN {[raised |-> "ValueError", value |-> << >>]}
    ELSE IF AnomalyRows(df, predictions) = {}
    THEN {[raised |-> "none", value |-> Sentinel]}
    ELSE {[raised |-> "none", value |-> s] :
            s \in {a \in Arrangements(AnomalyGroups(df, AnomalyRows(df, predictions))) :
                      SortedByCountDesc(a)}}

\* ------------------------------------------------------------------ narrative
\* fetch_external_context
fetch_external_context(anomalies_summary) ==
    IF anomalies_summary[1].Anomaly_Count = 0
    THEN [kind |-> "no_context"]
    ELSE [kind |-> "weather", location |-> anomalies_summary[1].Location]

\* the string returned when the credential is not set
PlaceholderNoKey == [kind |-> "placeholder_no_key"]

\* os.getenv("GEMINI_API_KEY") is truthy: unset and the empty string are not
HasKey(key) == key = "set"

\* generate_analysis with the client built before the credential is looked at
generate_analysis_ClientFirst(anomalies_summary, key, client_ok, gen_ok) ==
    IF ~client_ok
    THEN [raised |-> "ClientError", text |-> [kind |-> "none"],
          clients |-> 1, requests |-> 0, enriched |-> FALSE]
    ELSE IF ~HasKey(key)
    THEN [raised |-> "none", text |-> PlaceholderNoKey,
          clients |-> 1, requests |-> 0, enriched |-> FALSE]
    ELSE [raised |-> "none",
          text |-> IF gen_ok
                   THEN [kind |-> "ai", data |-> anomalies_summary,
                         context |-> fetch_external_context(anomalies_summary)]
                   ELSE [kind |-> "analysis_failed", error |-> "ServiceError"],
          clients |-> 1, requests |-> 1, enriched |-> TRUE]

\* generate_analysis, given the credential and what the collaborator does
\* (client_ok: genai.Client() returns; gen_ok: generate_content returns).
\* clients and requests count the constructions and the generation calls;
\* enriched tells whether fetch_external_context ran.
generate_analysis(anomalies_summary, key, client_ok, gen_ok) ==
    IF ~HasKey(key)
    THEN [raised |-> "none", text |-> PlaceholderNoKey,
          clients |-> 0, requests |-> 0, enriched |-> FALSE]
    ELSE IF ~client_ok
    THEN [raised |-> "ClientError", text |-> [kind |-> "none"],
          clients |-> 1, requests |-> 0, enriched |-> FALSE]
    ELSE IF gen_ok
    THEN [raised |-> "none",
          text |-> [kind |-> "ai", data |-> anomalies_summary,
                    context |-> fetch_external_context(anomalies_summary)],
          clients |-> 1, requests |-> 1, enriched |-> TRUE]
    ELSE [raised |-> "none", text |-> [kind |-> "analysis_failed", error |-> "ServiceError"],
          clients |-> 1, requests |-> 1, enriched |-> TRUE]

\* ------------------------------------------------------------------ report
\* format(x, ".2f") of a whole number of units
FormatUnits(n) == [kind |-> "fixed", neg |-> FALSE, int |-> n, frac |-> 0]

\* format(x, ".2f") of a column value; None has no such format
FormatWoW(w) ==
    CASE w.kind = "null" -> [kind |-> "TypeError"]
      [] w.kind = "inf" -> [kind |-> "text", s |-> "inf"]
      [] w.kind = "nan" -> [kind |-> "text", s |-> "nan"]
      [] OTHER -> [kind |-> "fixed", neg |-> w.v < 0,
                   int |-> (IF w.v < 0 THEN 0 - w.v ELSE w.v) \div 100,
                   frac |-> (IF w.v < 0 THEN 0 - w.v ELSE w.v) % 100]

\* one <tr> of the table
FormatRow(row) ==
    [date |-> row.Date, spend |-> FormatUnits(row.Weekly_Spend), wow |-> FormatWoW(row.WoW)]

\* generate_pdf_report, given whether write_pdf succeeds: the markup is built
\* first, then the output path, then the renderer writes
generate_pdf_report(df_weekly, ai_analysis_text, file_path, render_ok) ==
    LET rows == [k \in 1..Len(df_weekly) |-> FormatRow(df_weekly[k])]
    IN  IF \E k \in 1..Len(rows) : rows[k].wow.kind = "TypeError"
        THEN [raised |-> "TypeError", html |-> [kind |-> "none"], written |-> {}]
        ELSE IF ~render_ok
        THEN [raised |-> "RenderError", html |-> [kind |-> "none"], written |-> {}]
        ELSE [raised |-> "none",
              html |-> [kind |-> "html", analysis |-> ai_analysis_text, rows |-> rows],
              written |-> {OutputPath(file_path)}]

\* ------------------------------------------------------------------ state
VARIABLES
    env_key,            \* GEMINI_API_KEY in the environment: "unset", "empty", "set"
    csv_ok,             \* whether the files' content parses under EXPECTED_SCHEMA
    df,                 \* the rows the files hold
    predictions,        \* fit_predict of the seeded model on df's features
    paths,              \* the paths that may appear in the watched directory
    created,            \* number of events the observer has emitted
    queue,              \* the observer's event queue
    active,             \* ids of the events whose handler call is in progress
    pc,                 \* position of the handler call
    event,              \* the event being handled
    df_weekly,          \* transform_and_analyze: local
    anomalies_summary,  \* transform_and_analyze: local
    ai_analysis_text,   \* transform_and_analyze: local
    trace,              \* functions of etl_logic entered in this run, in order
    clients,            \* genai.Client() constructions in this run
    requests,           \* generate_content calls in this run
    collab_err,         \* the collaborator step that raised in this run
    returned,           \* what transform_and_analyze returned to process_data
    caught,             \* the exception process_data caught
    written,            \* the files the renderer has written
    prev,               \* the artifacts computed by the previous run
    arg,                \* the input of a directly applied function
    res                 \* its result

vars ==
    << env_key, csv_ok, df, predictions, paths, created, queue, active, pc, event,
       df_weekly, anomalies_summary, ai_analysis_text, trace, clients, requests,
       collab_err, returned, caught, written, prev, arg, res >>

envVars == << env_key, csv_ok, df, predictions, paths >>
runVars ==
    << df_weekly, anomalies_summary, ai_analysis_text, trace, clients, requests,
       collab_err, returned, caught >>
fnVars == << arg, res >>

\* ------------------------------------------------------------------ inputs
Locations == {"Miami", "Dallas"}
Spends == {0, 100, 150}
RunSpends == {100}
DayOffsets == {0, 6}
RunDays == {0, 7}

\* the days of the first n weeks that the inputs use
Days(n) == {7 * w + o : w \in 0..(n - 1), o \in DayOffsets}

Records(days, spends, locs) ==
    [Date : days, Spend : spends, Location : locs]

SeqsUpTo(S, n) == UNION {[1..k -> S] : k \in 0..n}

\* INPUT_DIR, abbreviated
InputDir == << ".", "/", "i" >>
Stems == {<< "d" >>, << "d", ".", "c", "s", "v" >>}
Exts == {DotCsv, << ".", "C", "S", "V" >>, << ".", "t", "x", "t" >>}
AllPaths == {PathJoin(InputDir, stem \o ext) : stem \in Stems, ext \in Exts}
PlainPath == PathJoin(InputDir, << "d" >> \o DotCsv)

NoEvent == [src_path |-> << >>, is_directory |-> FALSE, id |-> 0]
NoText == [kind |-> "none"]
NoResult == [kind |-> "none"]

\* ------------------------------------------------------------------ service
InitRun ==
    /\ df_weekly = << >>
    /\ anomalies_summary = << >>
    /\ ai_analysis_text = NoText
    /\ trace = << >>
    /\ clients = 0
    /\ requests = 0
    /\ collab_err = "none"
    /\ returned = NoResult
    /\ caught = "none"

InitService ==
    /\ created = 0
    /\ queue = << >>
    /\ active = {}
    /\ pc = "idle"
    /\ event = NoEvent
    /\ InitRun
    /\ written = {}
    /\ prev = NoResult

\* the pipeline on every dataset of up to MaxRunRows rows, one watched file name
Init ==
    /\ env_key \in {"unset", "empty", "set"}
    /\ csv_ok \in BOOLEAN
    /\ df \in SeqsUpTo(Records(RunDays, RunSpends, Locations), MaxRunRows)
    /\ csv_ok = FALSE => df = << >>
    /\ predictions \in [1..Len(df) -> {1, -1}]
    /\ paths = {PlainPath}
    /\ InitService
    /\ arg = NoResult
    /\ res = NoResult

\* the observer puts a creation event in its queue
FileCreated ==
    /\ created < MaxEvents
    /\ \E p \in paths, d \in BOOLEAN :
         queue' = Append(queue, [src_path |-> p, is_directory |-> d, id |-> created + 1])
    /\ created' = created + 1
    /\ UNCHANGED << envVars, active, pc, event, runVars, written, prev, fnVars >>

\* a dispatcher that hands each event to a handler call of its own
DispatcherFree_PerEvent == TRUE

\* the observer thread calls one handler at a time
DispatcherFree == active = {}

\* CSVHandler.on_created is called with the next event
on_created ==
    /\ DispatcherFree
    /\ queue # << >>
    /\ queue' = Tail(queue)
    /\ IF Accepted(Head(queue))
       THEN /\ pc' = "sleep"
            /\ event' = Head(queue)
            /\ active' = active \cup {Head(queue).id}
            /\ df_weekly' = << >>
            /\ anomalies_summary' = << >>
            /\ ai_analysis_text' = NoText
            /\ trace' = << >>
            /\ clients' = 0
            /\ requests' = 0
            /\ collab_err' = "none"
            /\ returned' = NoResult
            /\ caught' = "none"
       ELSE UNCHANGED << pc, event, active, runVars >>
    /\ UNCHANGED << envVars, created, written, prev, fnVars >>

\* time.sleep(1) in on_created returns
settle_delay ==
    /\ pc = "sleep"
    /\ pc' = "read"
    /\ UNCHANGED << envVars, created, queue, active, event, runVars, written, prev, fnVars >>

\* process_data returns to on_created, which returns to the observer:
\* exc is the exception its handlers caught, "none" on the normal path
Finish(exc) ==
    /\ pc' = "idle"
    /\ active' = active \ {event.id}
    /\ caught' = exc

\* process_data: pl.read_csv under the strict schema
read_csv ==
    /\ pc = "read"
    /\ IF csv_ok
       THEN /\ pc' = "weekly"
            /\ UNCHANGED << active, caught >>
       ELSE Finish("ComputeError")
    /\ UNCHANGED << envVars, created, queue, event, df_weekly, anomalies_summary,
                    ai_analysis_text, trace, clients, requests, collab_err, returned,
                    written, prev, fnVars >>

\* transform_and_analyze: df_weekly = calculate_weekly_metrics(df)
step_weekly ==
    /\ pc = "weekly"
    /\ trace' = Append(trace, "calculate_weekly_metrics")
    /\ LET r == calculate_weekly_metrics(df)
       IN  IF r.raised = "none"
           THEN /\ df_weekly' = r.value
                /\ pc' = "detect"
                /\ UNCHANGED << active, caught >>
           ELSE /\ Finish(r.raised)
                /\ UNCHANGED df_weekly
    /\ UNCHANGED << envVars, created, queue, event, anomalies_summary, ai_analysis_text,
                    clients, requests, collab_err, returned, written, prev, fnVars >>

\* transform_and_analyze: anomalies_summary = detect_anomalies(df)
step_detect ==
    /\ pc = "detect"
    /\ trace' = Append(trace, "detect_anomalies")
    /\ \E r \in detect_anomalies(df, predictions) :
         IF r.raised = "none"
         THEN /\ anomalies_summary' = r.value
              /\ pc' = "analysis"
              /\ UNCHANGED << active, caught >>
         ELSE /\ Finish(r.raised)
              /\ UNCHANGED anomalies_summary
    /\ UNCHANGED << envVars, created, queue, event, df_weekly, ai_analysis_text,
                    clients, requests, collab_err, returned, written, prev, fnVars >>

\* transform_and_analyze: ai_analysis_text = generate_analysis(anomalies_summary)
step_analysis ==
    /\ pc = "analysis"
    /\ \E client_ok \in BOOLEAN, gen_ok \in BOOLEAN :
         LET r == generate_analysis(anomalies_summary, env_key, client_ok, gen_ok)
         IN  /\ trace' = trace \o << "generate_analysis" >>
                           \o (IF r.enriched THEN << "fetch_external_context" >> ELSE << >>)
             /\ clients' = r.clients
             /\ requests' = r.requests
             /\ collab_err' = IF r.clients = 1 /\ ~client_ok THEN "client"
                              ELSE IF r.requests = 1 /\ ~gen_ok THEN "generate"
                              ELSE "none"
             /\ IF r.raised = "none"
                THEN /\ ai_analysis_text' = r.text
                     /\ pc' = "report"
                     /\ UNCHANGED << active, caught, prev >>
                ELSE /\ Finish(r.raised)
                     /\ prev' = [kind |-> "artifacts", df_weekly |-> df_weekly,
                                 anomalies_summary |-> anomalies_summary]
                     /\ UNCHANGED ai_analysis_text
    /\ UNCHANGED << envVars, created, queue, event, df_weekly, anomalies_summary,
                    returned, written, fnVars >>

\* transform_and_analyze: generate_pdf_report(...), then the return, back in
\* process_data
step_report ==
    /\ pc = "report"
    /\ trace' = Append(trace, "generate_pdf_report")
    /\ \E render_ok \in BOOLEAN :
         LET r == generate_pdf_report(df_weekly, ai_analysis_text, event.src_path, render_ok)
         IN  /\ written' = written \cup r.written
             /\ returned' = IF r.raised = "none"
                            THEN [kind |-> "artifacts", df_weekly |-> df_weekly,
                                  anomalies_summary |-> anomalies_summary]
                            ELSE NoResult
             /\ Finish(r.raised)
    /\ prev' = [kind |-> "artifacts", df_weekly |-> df_weekly,
                anomalies_summary |-> anomalies_summary]
    /\ UNCHANGED << envVars, created, queue, event, df_weekly, anomalies_summary,
                    ai_analysis_text, clients, requests, collab_err, fnVars >>

Next ==
    \/ FileCreated
    \/ on_created
    \/ settle_delay
    \/ read_csv
    \/ step_weekly
    \/ step_detect
    \/ step_analysis
    \/ step_report

Spec == Init /\ [][Next]_vars

\* the watcher on every file name, one small well-formed dataset
InitWatcher ==
    /\ env_key \in {"unset", "set"}
    /\ csv_ok \in BOOLEAN
    /\ df \in SeqsUpTo(Records({0}, RunSpends, {"Miami"}), 1)
    /\ csv_ok = FALSE => df = << >>
    /\ predictions \in [1..Len(df) -> {1}]
    /\ paths = AllPaths
    /\ InitService
    /\ arg = NoResult
    /\ res = NoResult

SpecWatcher == InitWatcher /\ [][Next]_vars

\* ------------------------------------------------------------------ functions applied directly
InitIdle ==
    /\ env_key = "unset"
    /\ csv_ok = TRUE
    /\ df = << >>
    /\ predictions = << >>
    /\ paths = {}
    /\ InitService
    /\ res = NoResult

\* calculate_weekly_metrics on every dataset of up to MaxRows rows
InitWeekly ==
    /\ InitIdle
    /\ arg \in [df : SeqsUpTo(Records(Days(MaxWeeks), Spends, {"Miami"}), MaxRows)]

apply_weekly ==
    /\ res = NoResult
    /\ res' = [kind |-> "weekly", out |-> calculate_weekly_metrics(arg.df)]
    /\ UNCHANGED << envVars, created, queue, active, pc, event, runVars, written, prev, arg >>

SpecWeekly == InitWeekly /\ [][apply_weekly]_vars

\* detect_anomalies on every dataset of up to MaxRows rows and every labelling
InitDetect ==
    /\ InitIdle
    /\ \E d \in SeqsUpTo(Records({0}, Spends, Locations), MaxRows) :
         arg \in [df : {d}, predictions : [1..Len(d) -> {1, -1}]]

apply_detect ==
    /\ res = NoResult
    /\ \E r \in detect_anomalies(arg.df, arg.predictions) :
         res' = [kind |-> "detect", out |-> r]
    /\ UNCHANGED << envVars, created, queue, active, pc, event, runVars, written, prev, arg >>

SpecDetect == InitDetect /\ [][apply_detect]_vars

\* the weekly tables of up to n buckets: ascending week starts, WoW as the
\* aggregator fills it
WeeklyTables(n) ==
    {WithWoW(w) : w \in {t \in SeqsUpTo([Date : {WeekStart(d) : d \in Days(MaxTable)},
                                         Weekly_Spend : Spends], n) :
                            \A i \in 1..(Len(t) - 1) : t[i].Date < t[i + 1].Date}}

\* generate_pdf_report on every such table and every path the handler accepts
InitReport ==
    /\ InitIdle
    /\ arg \in [df_weekly : WeeklyTables(MaxTable),
                ai_analysis_text : {PlaceholderNoKey},
                file_path : {q \in AllPaths :
                               Accepted([src_path |-> q, is_directory |-> FALSE])}]

apply_report ==
    /\ res = NoResult
    /\ \E render_ok \in BOOLEAN :
         res' = [kind |-> "report", render_ok |-> render_ok,
                 out |-> generate_pdf_report(arg.df_weekly, arg.ai_analysis_text,
                                             arg.file_path, render_ok)]
    /\ UNCHANGED << envVars, created, queue, active, pc, event, runVars, written, prev, arg >>

SpecReport == InitReport /\ [][apply_report]_vars

\* ------------------------------------------------------------------ claims
Artifacts == [kind |-> "artifacts", df_weekly |-> df_weekly,
              anomalies_summary |-> anomalies_summary]

\* a run of the handler on an accepted file has ended
RunEnded == pc = "idle" /\ event # NoEvent

\* position of the first entry of function f in the run's trace, 0 if absent
Entered(f) ==
    IF f \in Range(trace) THEN CHOOSE i \in 1..Len(trace) : trace[i] = f /\ \A j \in 1..(i - 1) : trace[j] # f
    ELSE 0

\* C1: when generate_pdf_report raises while producing the report, the run of
\* transform_and_analyze still returns the weekly buckets and the anomaly
\* summary it computed to its caller, and the failure reaches the caller.
C1_RenderFailureStillReturns ==
    (RunEnded /\ Entered("generate_pdf_report") > 0 /\ caught # "none")
        => returned = Artifacts

\* C3: for a well-formed, non-empty dataset (rows in date order, no error
\* from the collaborator) a run enters all five stages, in the order
\* Aggregator, Detector, Context Enricher, Assembler, with the Narrative
\* Generator between Detector and Assembler.
C3_AllFiveStagesInOrder ==
    (RunEnded /\ csv_ok /\ Len(df) > 0 /\ IsSortedByDate(df) /\ collab_err = "none")
        => /\ 0 < Entered("calculate_weekly_metrics")
           /\ Entered("calculate_weekly_metrics") < Entered("detect_anomalies")
           /\ Entered("detect_anomalies") < Entered("generate_analysis")
           /\ Entered("detect_anomalies") < Entered("fetch_external_context")
           /\ Entered("fetch_external_context") < Entered("generate_pdf_report")
           /\ Entered("generate_analysis") < Entered("generate_pdf_report")

\* C4: when GEMINI_API_KEY is not set, generate_analysis returns the one fixed
\* placeholder whatever the anomaly summary is, and no client is constructed
\* and no generation request is made in that run.
C4_NoKeyPlaceholder ==
    (env_key # "set" /\ Entered("generate_analysis") > 0)
        => /\ ai_analysis_text = PlaceholderNoKey
           /\ clients = 0
           /\ requests = 0
           /\ collab_err = "none"

\* C4 witness: a run without the credential has passed generate_analysis with
\* a real (non-sentinel) anomaly summary and holds the placeholder.
C4_Witness ==
    /\ env_key = "unset"
    /\ pc = "report"
    /\ anomalies_summary # Sentinel
    /\ ai_analysis_text = PlaceholderNoKey

\* C5: with the credential set, when creating the client or the generate call
\* raises, generate_analysis returns the labelled placeholder with the error
\* instead of raising, at most one generation request is made, and the run
\* goes on to generate_pdf_report.
C5_CollaboratorErrorRecovered ==
    (env_key = "set" /\ collab_err # "none")
        => /\ ai_analysis_text.kind = "analysis_failed"
           /\ requests <= 1
           /\ (pc = "report" \/ Entered("generate_pdf_report") > 0)

\* C9: a run on the dataset of an earlier run computes the same weekly buckets
\* and the same anomaly summary, rows in the same order.
C9_RunsAgree ==
    (prev.kind = "artifacts" /\ pc \in {"analysis", "report"})
        => Artifacts = prev

\* C10: at most one event's handler call is in progress at any time, and the
\* handler is at work exactly while that one call is in progress.
C10_OneAtATime ==
    /\ Cardinality(active) <= 1
    /\ pc = "idle" <=> active = {}
    /\ pc # "idle" => active = {event.id}

\* C10 witness: an accepted file is in the middle of its pipeline run while
\* another accepted file's event waits in the queue.
C10_Witness ==
    /\ pc = "detect"
    /\ queue # << >>
    /\ Accepted(Head(queue))
    /\ Head(queue).src_path # event.src_path

\* C2: for every weekly table given to generate_pdf_report whose markup the
\* renderer accepts, the document description is produced and every bucket
\* whose change is undefined (null on the first bucket, non-finite after a
\* bucket of zero spend) is shown by a marker and not by a number.
C2_UndefinedRenderedAsMarker ==
    (res.kind = "report" /\ res.render_ok)
        => /\ res.out.raised = "none"
           /\ res.out.html.kind = "html"
           /\ Len(res.out.html.rows) = Len(arg.df_weekly)
           /\ \A k \in 1..Len(arg.df_weekly) :
                arg.df_weekly[k].WoW.kind # "num"
                    => res.out.html.rows[k].wow.kind = "text"

\* <input-basename>_Report.pdf beside the input: the last extension replaced
ExpectedReportPath(file_path) ==
    PathJoin(Dirname(file_path),
             SubSeq(Basename(file_path), 1, Len(Basename(file_path)) - Len(DotCsv))
                \o ReportPdf)

\* C6: for every path the handler accepts, a report that is written is
\* written to <input-basename>_Report.pdf in the input's directory, only the
\* extension replaced, and never to the input's own path.
C6_ReportBesideInput ==
    (res.kind = "report" /\ res.out.raised = "none")
        => /\ res.out.written = {ExpectedReportPath(arg.file_path)}
           /\ arg.file_path \notin res.out.written

\* the ascending order of the location names
LocationRank(l) ==
    CASE l = Null -> 0
      [] l = "Dallas" -> 1
      [] l = "Miami" -> 2

\* C7: the rows detect_anomalies returns are in descending order of
\* Anomaly_Count, rows of equal count in ascending order of Location.
C7_CountDescLocationAsc ==
    (res.kind = "detect" /\ res.out.raised = "none")
        => \A i \in 1..Len(res.out.value), j \in 1..Len(res.out.value) :
             i < j =>
               \/ res.out.value[i].Anomaly_Count > res.out.value[j].Anomaly_Count
               \/ /\ res.out.value[i].Anomaly_Count = res.out.value[j].Anomaly_Count
                  /\ LocationRank(res.out.value[i].Location)
                        < LocationRank(res.out.value[j].Location)

\* the bucket sequence is in ascending week order, the first change is null
\* and every later change is taken against the bucket before it
WellFormedWeekly(t) ==
    /\ \A k \in 1..(Len(t) - 1) : t[k].Date < t[k + 1].Date
    /\ \A k \in 1..Len(t) :
         t[k].WoW = IF k = 1 THEN WoWNull
                    ELSE PctChange(t[k].Weekly_Spend, t[k - 1].Weekly_Spend)

\* C8: for a dataset of N distinct calendar weeks, rows in any order,
\* calculate_weekly_metrics returns N buckets in ascending week order, each
\* change taken against the bucket before it, the first change undefined.
C8_WeeklyBuckets ==
    res.kind = "weekly"
        => /\ res.out.raised = "none"
           /\ Len(res.out.value)
                = Cardinality({WeekStart(arg.df[i].Date) : i \in 1..Len(arg.df)})
           /\ WellFormedWeekly(res.out.value)

\* the same for datasets whose rows are in date order
WeeklyBucketsOnSortedInput ==
    (res.kind = "weekly" /\ IsSortedByDate(arg.df))
        => /\ res.out.raised = "none"
           /\ Len(res.out.value)
                = Cardinality({WeekStart(arg.df[i].Date) : i \in 1..Len(arg.df)})
           /\ WellFormedWeekly(res.out.value)

====
